---------------------------- MODULE Spec2Model ----------------------------
(***************************************************************************)
(* Model of the BWT + MTF + RLE file compressor (src/encoder.py) and its   *)
(* decompressor (src/decoder.py).                                          *)
(*                                                                         *)
(* Byte strings and integer lists are TLA+ sequences.  The program indexes *)
(* from 0, so At(s, i) reads program index i.  Loops of the program are    *)
(* folded with ForRange / While, which apply the loop body in program      *)
(* order (they split the iteration range in halves only to keep the        *)
(* evaluation depth logarithmic).                                          *)
(***************************************************************************)
EXTENDS Integers, Sequences, FiniteSets, TLC

(***************************************************************************)
(* Program constants.                                                      *)
(***************************************************************************)
AlphabetSize == 256
MaxRun == 127
RleFlag == 128
MinCompressSize == 512
HeaderSize == 4

(***************************************************************************)
(* Generic helpers: indexing, loops.                                       *)
(***************************************************************************)
At(s, i) == s[i + 1]

Repeat(v, k) == [j \in 1..k |-> v]

\* for i in range(lo, hi + 1): st = Body(st, i)
RECURSIVE ForRange(_, _, _, _)
ForRange(Body(_, _), st, lo, hi) ==
    IF lo > hi THEN st
    ELSE IF lo = hi THEN Body(st, lo)
    ELSE LET mid == (lo + hi) \div 2
             left == ForRange(Body, st, lo, mid)
         IN  IF left = left THEN ForRange(Body, left, mid + 1, hi) ELSE st

\* while Cond(st): st = Body(st)     -- at most fuel iterations are run; the
\* caller looks at Cond of the result to see whether the loop has ended.
RECURSIVE While(_, _, _, _)
While(Cond(_), Body(_), st, fuel) ==
    IF fuel <= 0 THEN st
    ELSE IF fuel = 1 THEN (IF Cond(st) THEN Body(st) ELSE st)
    ELSE LET half == fuel \div 2
             first == While(Cond, Body, st, half)
         IN  IF Cond(first) THEN While(Cond, Body, first, fuel - half) ELSE first

(***************************************************************************)
(* encoder.py: perform_burrows_wheeler_transform                           *)
(***************************************************************************)
\* Rotation a of data, rotation[i] = data[(a + i) % n] for i in range(n).
Rotation(data, a) == SubSeq(data \o data, a + 1, a + Len(data))

\* Least i with ra[i] # rb[i] (0-based), given that the prefixes of length lo
\* agree and those of length hi differ.
RECURSIVE FirstDiff(_, _, _, _)
FirstDiff(ra, rb, lo, hi) ==
    IF hi = lo + 1 THEN lo
    ELSE LET mid == (lo + hi) \div 2
         IN  IF SubSeq(ra, 1, mid) = SubSeq(rb, 1, mid)
             THEN FirstDiff(ra, rb, mid, hi)
             ELSE FirstDiff(ra, rb, lo, mid)

\* The comparator handed to list.sort: the first non-zero byte difference of
\* the two rotations, 0 when all n positions agree.
compare_rotations(data, a, b) ==
    LET ra == Rotation(data, a)
        rb == Rotation(data, b)
    IN  IF ra = rb THEN 0
        ELSE LET i == FirstDiff(ra, rb, 0, Len(data))
             IN  At(ra, i) - At(rb, i)

\* Number of elements of the sorted list that do not compare greater than x
\* (the place a stable sort gives x after them), by bisection of sorted[lo+1..hi].
RECURSIVE UpperBound(_, _, _, _, _)
UpperBound(data, sorted, x, lo, hi) ==
    IF lo >= hi THEN lo
    ELSE LET mid == (lo + hi) \div 2
         IN  IF compare_rotations(data, At(sorted, mid), x) <= 0
             THEN UpperBound(data, sorted, x, mid + 1, hi)
             ELSE UpperBound(data, sorted, x, lo, mid)

\* indices.sort(key=cmp_to_key(compare_rotations)): list.sort is stable, so
\* the result is the one order in which equal rotations keep ascending index.
SortRotations(data) ==
    LET n == Len(data)
        Insert(sorted, x) ==
            LET p == UpperBound(data, sorted, x, 0, Len(sorted))
            IN  SubSeq(sorted, 1, p) \o <<x>> \o SubSeq(sorted, p + 1, Len(sorted))
    IN  ForRange(Insert, <<>>, 0, n - 1)

\* Mutant of BwtByte: the wraparound for the rotation that starts at 0 is lost.
BwtByte_NoWrap(data, idx) ==
    IF idx > 0 THEN At(data, idx - 1) ELSE At(data, 0)

\* Byte emitted for the rotation that starts at idx.
BwtByte(data, idx) ==
    IF idx > 0 THEN At(data, idx - 1) ELSE data[Len(data)]

\* Returns [data |-> bwt_data, index |-> original_index].
perform_burrows_wheeler_transform(data) ==
    IF data = <<>> THEN [data |-> <<>>, index |-> 0]
    ELSE LET indices == SortRotations(data)
             n == Len(data)
         IN  [data  |-> [pos \in 1..n |-> BwtByte(data, indices[pos])],
              index |-> (CHOOSE pos \in 0..(n - 1) : At(indices, pos) = 0)]

(***************************************************************************)
(* encoder.py: perform_move_to_front_transform                             *)
(***************************************************************************)
InitialAlphabet == [j \in 1..AlphabetSize |-> j - 1]

\* alphabet.index(byte)
AlphabetIndex(alphabet, byte) ==
    CHOOSE idx \in 0..(Len(alphabet) - 1) :
        At(alphabet, idx) = byte /\ \A k \in 0..(idx - 1) : At(alphabet, k) # byte

\* del alphabet[idx]; alphabet.insert(0, byte)
MoveToFront(alphabet, idx, byte) ==
    <<byte>> \o SubSeq(alphabet, 1, idx) \o SubSeq(alphabet, idx + 2, Len(alphabet))

\* One iteration of the loop over data; st = [alphabet, result].
MtfEncodeStep(st, byte) ==
    LET idx == AlphabetIndex(st.alphabet, byte)
    IN  [alphabet |-> MoveToFront(st.alphabet, idx, byte),
         result   |-> Append(st.result, idx)]

perform_move_to_front_transform(data) ==
    LET Body(st, i) == MtfEncodeStep(st, At(data, i))
    IN  ForRange(Body, [alphabet |-> InitialAlphabet, result |-> <<>>],
                 0, Len(data) - 1).result

(***************************************************************************)
(* encoder.py: perform_run_length_encoding                                 *)
(***************************************************************************)
\* Mutant of RunCount: the cap of the run is one too high (count <= 127).
RunCount_CapOffByOne(data, i) ==
    LET n == Len(data)
        go(count) == i + count < n /\ At(data, i + count) = At(data, i)
                        /\ count <= MaxRun
    IN  CHOOSE count \in 1..(MaxRun + 1) :
            ~go(count) /\ \A c \in 1..(count - 1) : go(c)

\* while i + count < n and data[i + count] == current and count < 127: count += 1
RunCount(data, i) ==
    LET n == Len(data)
        go(count) == i + count < n /\ At(data, i + count) = At(data, i)
                        /\ count < MaxRun
    IN  CHOOSE count \in 1..MaxRun :
            ~go(count) /\ \A c \in 1..(count - 1) : go(c)

\* Mutant of RawLength: the loop breaks on two equal values ahead instead
\* of three.
RawLength_BreaksOnPair(data, i) ==
    LET n == Len(data)
        brk(r) == i + r + 1 < n /\ At(data, i + r) = At(data, i + r + 1)
        go(r) == i + r < n /\ r < MaxRun /\ ~brk(r)
    IN  CHOOSE r \in 0..MaxRun : ~go(r) /\ \A q \in 0..(r - 1) : go(q)

\* The raw branch's loop: the number of values copied before the loop ends
\* (no value left, 127 copied) or breaks (three equal values ahead).
RawLength(data, i) ==
    LET n == Len(data)
        brk(r) == i + r + 2 < n
                    /\ At(data, i + r) = At(data, i + r + 1)
                    /\ At(data, i + r + 1) = At(data, i + r + 2)
        go(r) == i + r < n /\ r < MaxRun /\ ~brk(r)
    IN  CHOOSE r \in 0..MaxRun : ~go(r) /\ \A q \in 0..(r - 1) : go(q)

\* One iteration of the main loop; st = [i, encoded].
RleEncodeStep(data, st) ==
    LET i == st.i
        current == At(data, i)
        count == RunCount(data, i)
    IN  IF count > 2
        THEN [i       |-> i + count,
              encoded |-> st.encoded \o <<RleFlag + count, current>>]
        ELSE LET run_length == RawLength(data, i)
             IN  [i       |-> i + run_length,
                  encoded |-> st.encoded \o <<run_length>>
                                \o SubSeq(data, i + 1, i + run_length)]

\* The main loop, run for at most fuel iterations.
RleEncodeLoop(data, fuel) ==
    LET Cond(st) == st.i < Len(data)
        Body(st) == RleEncodeStep(data, st)
    IN  While(Cond, Body, [i |-> 0, encoded |-> <<>>], fuel)

\* Every iteration that the code runs is one of the Len(data) the model
\* allows for: the result is the code's when the loop has ended (i >= n).
perform_run_length_encoding(data) ==
    IF data = <<>> THEN <<>>
    ELSE RleEncodeLoop(data, Len(data)).encoded

(***************************************************************************)
(* decoder.py.  A call either returns a value or raises:                   *)
(*   [raised |-> "none", value |-> v]  or  [raised |-> <exception class>,  *)
(*   at |-> <the raise statement>].                                        *)
(***************************************************************************)
Return(v) == [raised |-> "none", value |-> v]
Raise(cls, stmt) == [raised |-> cls, at |-> stmt]

Bytes == 0..(AlphabetSize - 1)

\* char_counts: byte -> number of occurrences (0 stands for an absent key).
CharCounts(transformed_data) ==
    LET Body(counts, i) ==
            [counts EXCEPT ![At(transformed_data, i)] = @ + 1]
    IN  ForRange(Body, [b \in Bytes |-> 0], 0, Len(transformed_data) - 1)

\* cumulative_counts: for byte in sorted(char_counts): offset of the byte.
CumulativeCounts(char_counts) ==
    LET Body(st, byte) ==
            IF char_counts[byte] = 0 THEN st
            ELSE [cumulative |-> [st.cumulative EXCEPT ![byte] = st.total],
                  total      |-> st.total + char_counts[byte]]
    IN  ForRange(Body, [cumulative |-> [b \in Bytes |-> 0], total |-> 0],
                 0, AlphabetSize - 1).cumulative

\* transformation_vector[k] = cumulative_counts[byte] + rank of the occurrence.
TransformationVector(transformed_data, cumulative_counts) ==
    LET Body(st, i) ==
            LET byte == At(transformed_data, i)
                rank == st.char_ranks[byte]
            IN  [char_ranks |-> [st.char_ranks EXCEPT ![byte] = rank + 1],
                 vector     |-> Append(st.vector, cumulative_counts[byte] + rank)]
    IN  ForRange(Body, [char_ranks |-> [b \in Bytes |-> 0], vector |-> <<>>],
                 0, Len(transformed_data) - 1).vector

\* for i in range(n - 1, -1, -1): result[i] = data[pos]; pos = vector[pos]
BwtWalk(transformed_data, transformation_vector, original_index) ==
    LET n == Len(transformed_data)
        Body(st, k) ==
            [result      |-> [st.result EXCEPT ![n - k] =
                                  At(transformed_data, st.current_pos)],
             current_pos |-> At(transformation_vector, st.current_pos)]
    IN  ForRange(Body, [result |-> Repeat(0, n), current_pos |-> original_index],
                 0, n - 1).result

\* Mutant of reverse_burrows_wheeler_transform: the range check is missing,
\* so an index past the end fails in the reconstruction loop's subscript
\* (IndexError) and a negative index counts from the end.
reverse_burrows_wheeler_transform_NoCheck(transformed_data, original_index) ==
    LET n == Len(transformed_data)
    IN  IF transformed_data = <<>> THEN Return(<<>>)
        ELSE IF original_index >= n \/ original_index < 0 - n
        THEN Raise("IndexError", "bwt_walk")
        ELSE LET cumulative_counts == CumulativeCounts(CharCounts(transformed_data))
                 vector == TransformationVector(transformed_data, cumulative_counts)
             IN  Return(BwtWalk(transformed_data, vector,
                                IF original_index < 0 THEN original_index + n
                                ELSE original_index))

IndexInRange(original_index, n) == ~(original_index < 0 \/ original_index >= n)

reverse_burrows_wheeler_transform(transformed_data, original_index) ==
    IF transformed_data = <<>> THEN Return(<<>>)
    ELSE IF ~IndexInRange(original_index, Len(transformed_data))
    THEN Raise("ValueError", "bwt_index")
    ELSE LET cumulative_counts == CumulativeCounts(CharCounts(transformed_data))
             vector == TransformationVector(transformed_data, cumulative_counts)
         IN  Return(BwtWalk(transformed_data, vector, original_index))

\* Mutant of MtfDecodeStep: the move is skipped for rank 1 as well (idx > 1).
MtfDecodeStep_SkipsRankOne(st, idx) ==
    [alphabet |-> IF idx > 1
                  THEN MoveToFront(st.alphabet, idx, At(st.alphabet, idx))
                  ELSE st.alphabet,
     result   |-> Append(st.result, At(st.alphabet, idx))]

\* One iteration of the loop over encoded_indices; st = [alphabet, result].
MtfDecodeStep(st, idx) ==
    [alphabet |-> IF idx # 0
                  THEN MoveToFront(st.alphabet, idx, At(st.alphabet, idx))
                  ELSE st.alphabet,
     result   |-> Append(st.result, At(st.alphabet, idx))]

reverse_move_to_front_transform(encoded_indices) ==
    IF encoded_indices = <<>> THEN Return(<<>>)
    ELSE IF \E k \in 1..Len(encoded_indices) :
                encoded_indices[k] < 0 \/ encoded_indices[k] >= AlphabetSize
    THEN Raise("ValueError", "mtf_invalid_indices")
    ELSE LET Body(st, i) == MtfDecodeStep(st, At(encoded_indices, i))
         IN  Return(ForRange(Body, [alphabet |-> InitialAlphabet, result |-> <<>>],
                             0, Len(encoded_indices) - 1).result)

\* Mutant of RleDecodeStep: the raw branch does not test whether raw_length
\* bytes remain; the slice silently yields the bytes there are.
RleDecodeStep_NoRawCheck(compressed_data, st) ==
    LET data_length == Len(compressed_data)
        header == At(compressed_data, st.position)
        position == st.position + 1
    IN  IF header >= RleFlag
        THEN IF position >= data_length
             THEN [st EXCEPT !.position = position, !.raised = "rle_run"]
             ELSE [position       |-> position + 1,
                   decoded_values |-> st.decoded_values
                       \o Repeat(At(compressed_data, position), header % RleFlag),
                   raised         |-> "none"]
        ELSE [position       |-> position + header,
              decoded_values |-> st.decoded_values
                  \o SubSeq(compressed_data, position + 1,
                            IF position + header > data_length THEN data_length
                            ELSE position + header),
              raised         |-> "none"]

\* One iteration of the decoding loop; st = [position, decoded_values, raised].
RleDecodeStep(compressed_data, st) ==
    LET data_length == Len(compressed_data)
        header == At(compressed_data, st.position)
        position == st.position + 1
    IN  IF header >= RleFlag
        THEN LET run_length == header % RleFlag
             IN  IF position >= data_length
                 THEN [st EXCEPT !.position = position, !.raised = "rle_run"]
                 ELSE [position       |-> position + 1,
                       decoded_values |-> st.decoded_values
                           \o Repeat(At(compressed_data, position), run_length),
                       raised         |-> "none"]
        ELSE LET raw_length == header
             IN  IF position + raw_length > data_length
                 THEN [st EXCEPT !.position = position, !.raised = "rle_raw"]
                 ELSE [position       |-> position + raw_length,
                       decoded_values |-> st.decoded_values
                           \o SubSeq(compressed_data, position + 1,
                                     position + raw_length),
                       raised         |-> "none"]

\* The loop ends when the input is used up or an iteration raises.  Every
\* iteration reads a header byte, so Len(compressed_data) iterations suffice.
RleDecodeLoop(compressed_data) ==
    LET Cond(st) == st.raised = "none" /\ st.position < Len(compressed_data)
        Body(st) == RleDecodeStep(compressed_data, st)
    IN  While(Cond, Body,
              [position |-> 0, decoded_values |-> <<>>, raised |-> "none"],
              Len(compressed_data))

decode_run_length_encoding(compressed_data) ==
    IF compressed_data = <<>> THEN Return(<<>>)
    ELSE LET st == RleDecodeLoop(compressed_data)
         IN  IF st.raised = "none" THEN Return(st.decoded_values)
             ELSE Raise("ValueError", st.raised)

(***************************************************************************)
(* Files and the two file-level operations.                                *)
(***************************************************************************)
NoFile == [exists |-> FALSE, content |-> <<>>]
File(content) == [exists |-> TRUE, content |-> content]

RECURSIVE Pow(_, _)
Pow(b, e) == IF e = 0 THEN 1 ELSE b * Pow(b, e - 1)

\* index.to_bytes(4, 'big'); OverflowError when the value needs more bytes.
ToBytesBig(value, size) ==
    IF value < 0 \/ value \div Pow(AlphabetSize, size - 1) >= AlphabetSize
    THEN Raise("OverflowError", "to_bytes")
    ELSE Return([k \in 1..size |->
                    (value \div Pow(AlphabetSize, size - k)) % AlphabetSize])

\* open(output_path, 'wb'): the file exists and is empty
OpenForWriting == File(<<>>)

\* Mutant of RemoveIfExists: the handler leaves the output file alone.
RemoveIfExists_Forgotten(file) == file

\* if os.path.exists(output_path): os.remove(output_path)
RemoveIfExists(file) == IF file.exists THEN NoFile ELSE file

\* except Exception: what is at output_path once the handler has run, for a
\* try body that ended as t.
ExceptHandler(t) ==
    IF t.raised = "none" THEN t.output ELSE RemoveIfExists(t.output)

\* int.from_bytes(header, 'big')
RECURSIVE FromBytesBig(_)
FromBytesBig(bytes) ==
    IF bytes = <<>> THEN 0
    ELSE FromBytesBig(SubSeq(bytes, 1, Len(bytes) - 1)) * AlphabetSize
            + bytes[Len(bytes)]

\* b'\x00' * 4, the flag of uncompressed data
StoreFlag == Repeat(0, HeaderSize)

\* Mutant of TooSmall: the threshold is off by one (len(data) <= 512).
TooSmall_OffByOne(length) == length <= MinCompressSize

\* if len(data) < 512
TooSmall(length) == length < MinCompressSize

\* Mutant of Ineffective: the comparison is inverted.
Ineffective_Inverted(compressed_size, file_size) == compressed_size < file_size

\* if compressed_size >= file_size
Ineffective(compressed_size, file_size) == compressed_size >= file_size

\* compress_file on an input file holding data: the locals it computes and
\* the bytes it writes to output_path (os.path.getsize(input_path) is the
\* length of the data that is then read).
compress_file(data) ==
    LET file_size == Len(data)
    IN  IF TooSmall(Len(data))
        THEN [branch |-> "small", raised |-> "none",
              written |-> StoreFlag \o data]
        ELSE LET bwt == perform_burrows_wheeler_transform(data)
                 mtf_data == perform_move_to_front_transform(bwt.data)
                 rle_data == perform_run_length_encoding(mtf_data)
                 compressed_size == Len(rle_data) + HeaderSize
                 locals == [bwt_data |-> bwt.data, index |-> bwt.index,
                            mtf_data |-> mtf_data, rle_data |-> rle_data,
                            compressed_size |-> compressed_size]
             IN  IF Ineffective(compressed_size, file_size)
                 THEN [branch |-> "ineffective", raised |-> "none",
                       written |-> StoreFlag \o data, locals |-> locals]
                 ELSE LET header == ToBytesBig(bwt.index, HeaderSize)
                      IN  IF header.raised = "none"
                          THEN [branch |-> "compressed", raised |-> "none",
                                written |-> header.value \o rle_data,
                                locals |-> locals]
                          ELSE [branch |-> "compressed",
                                raised |-> header.raised, locals |-> locals]

\* decompress_file on a container file: the branch it takes and the bytes it
\* writes to output_path, or the exception that leaves it.
decompress_file(container) ==
    LET header == SubSeq(container, 1,
                         IF Len(container) < HeaderSize THEN Len(container)
                         ELSE HeaderSize)
        compressed_data == SubSeq(container, Len(header) + 1, Len(container))
    IN  IF header = StoreFlag
        THEN [branch |-> "store", raised |-> "none", written |-> compressed_data]
        ELSE LET original_index == FromBytesBig(header)
                 mtf_indices == decode_run_length_encoding(compressed_data)
             IN  IF mtf_indices.raised # "none"
                 THEN [branch |-> "compressed", raised |-> mtf_indices.raised,
                       at |-> mtf_indices.at]
                 ELSE LET bwt_data == reverse_move_to_front_transform(mtf_indices.value)
                      IN  IF bwt_data.raised # "none"
                          THEN [branch |-> "compressed", raised |-> bwt_data.raised,
                                at |-> bwt_data.at]
                          ELSE LET original_data ==
                                       reverse_burrows_wheeler_transform(
                                           bwt_data.value, original_index)
                               IN  IF original_data.raised # "none"
                                   THEN [branch |-> "compressed",
                                         raised |-> original_data.raised,
                                         at |-> original_data.at]
                                   ELSE [branch |-> "compressed", raised |-> "none",
                                         written |-> original_data.value,
                                         original_index |-> original_index]

(***************************************************************************)
(* Bounds of the checked input families.                                   *)
(***************************************************************************)
MaxSmallLen == 3
MaxPatternLen == 2
MaxExtra == 0
MaxBwtLen == 4
MaxMtfLen == 4
MaxRuns == 3
MaxShortRun == 3
MaxOver == 1
MaxGivenLen == 4
MaxRankLen == 3
MaxHeaderIndex == 2
MaxLoopRuns == 2

\* Byte values the file inputs are made of.
FileBytes == {0, 65, 255}

SeqsUpTo(S, n) == UNION {[1..k -> S] : k \in 0..n}

\* The first length bytes of pattern repeated over and over.
Tile(pattern, length) ==
    [j \in 1..length |-> pattern[((j - 1) % Len(pattern)) + 1]]

\* A buffer without structure for the pipeline to exploit.
Scrambled(length) == [j \in 1..length |-> (j * j * 7 + j * 13) % 251]

\* The 600 bytes 0x41 of the specification's concrete vector.
Vector600 == Repeat(65, 600)

LongLengths == (MinCompressSize - 1)..(MinCompressSize + MaxExtra)

FileInputs ==
    SeqsUpTo(FileBytes, MaxSmallLen)
    \cup {Tile(p, l) : p \in (SeqsUpTo(FileBytes, MaxPatternLen) \ {<<>>}),
                       l \in LongLengths}
    \cup {Scrambled(l) : l \in LongLengths}
    \cup {Vector600}

(***************************************************************************)
(* State.                                                                  *)
(***************************************************************************)
VARIABLES
    pc,               \* where the scenario stands
    input_file,       \* the file at compress_file's input_path
    compressed_file,  \* compress_file's output_path, decompress_file's input
    output_file,      \* the file at decompress_file's output_path
    enc,              \* what the last compress_file call did
    dec,              \* what the last decompress_file call did
    data,             \* argument of the function under test (unit scenarios)
    index,            \* primary index handed to the inverse BWT (unit scenarios)
    fwd,              \* result of the forward function (unit scenarios)
    inv,              \* result of the inverse function (unit scenarios)
    loop              \* state of the RLE loop in progress (unit scenarios)

vars == <<pc, input_file, compressed_file, output_file, enc, dec,
          data, index, fwd, inv, loop>>

fileVars == <<input_file, compressed_file, output_file, enc, dec>>
unitVars == <<data, index, fwd, inv, loop>>

Idle == [branch |-> "not called"]
Unused == <<>>

(***************************************************************************)
(* Compressing a file and decompressing the result.                        *)
(***************************************************************************)
Init ==
    /\ pc = "start"
    /\ input_file \in {File(x) : x \in FileInputs}
    /\ compressed_file = NoFile
    /\ output_file = NoFile
    /\ enc = Idle
    /\ dec = Idle
    /\ data = Unused /\ index = Unused /\ fwd = Unused /\ inv = Unused
    /\ loop = Unused

\* compress_file(input_path, output_path); on an exception the handler
\* removes the output file and the process exits.
CompressFile ==
    /\ pc = "start"
    /\ \E r \in {compress_file(input_file.content)} :
           /\ enc' = r
           /\ IF r.raised = "none"
              THEN compressed_file' = File(r.written) /\ pc' = "compressed"
              ELSE compressed_file' = NoFile /\ pc' = "exited"
    /\ UNCHANGED <<input_file, output_file, dec>>
    /\ UNCHANGED unitVars

\* decompress_file(compressed_path, output_path); on an exception the
\* handler removes the output file and raises again.
DecompressFile ==
    /\ pc = "compressed"
    /\ \E r \in {decompress_file(compressed_file.content)} :
           /\ dec' = r
           /\ IF r.raised = "none"
              THEN output_file' = File(r.written) /\ pc' = "decompressed"
              ELSE output_file' = NoFile /\ pc' = "raised"
    /\ UNCHANGED <<input_file, compressed_file, enc>>
    /\ UNCHANGED unitVars

Next == CompressFile \/ DecompressFile

Spec == Init /\ [][Next]_vars

(***************************************************************************)
(* The block-sort transform and its inverse, called directly.              *)
(***************************************************************************)
FilesUnused ==
    /\ input_file = NoFile /\ compressed_file = NoFile /\ output_file = NoFile
    /\ enc = Idle /\ dec = Idle

BwtInputs == SeqsUpTo(FileBytes, MaxBwtLen)
BwtIndexes == (0 - 1)..(MaxBwtLen + 1)

InitBWT ==
    /\ pc = "bwt_start"
    /\ data \in BwtInputs
    /\ index \in BwtIndexes
    /\ fwd = Unused /\ inv = Unused /\ loop = Unused
    /\ FilesUnused

\* fwd = perform_burrows_wheeler_transform(data)
BwtForward ==
    /\ pc = "bwt_start"
    /\ fwd' = perform_burrows_wheeler_transform(data)
    /\ pc' = "bwt_forward"
    /\ UNCHANGED <<data, index, inv, loop>>
    /\ UNCHANGED fileVars

\* inv = reverse_burrows_wheeler_transform(*fwd)
BwtInverse ==
    /\ pc = "bwt_forward"
    /\ inv' = reverse_burrows_wheeler_transform(fwd.data, fwd.index)
    /\ pc' = "bwt_round_trip"
    /\ UNCHANGED <<data, index, fwd, loop>>
    /\ UNCHANGED fileVars

\* inv = reverse_burrows_wheeler_transform(data, index), any buffer and index
BwtInverseOf ==
    /\ pc = "bwt_start"
    /\ inv' = reverse_burrows_wheeler_transform(data, index)
    /\ pc' = "bwt_inverse"
    /\ UNCHANGED <<data, index, fwd, loop>>
    /\ UNCHANGED fileVars

NextBWT == BwtForward \/ BwtInverse \/ BwtInverseOf

SpecBWT == InitBWT /\ [][NextBWT]_vars

(***************************************************************************)
(* The move-to-front transform and its inverse, called directly.           *)
(***************************************************************************)
MtfInputs == SeqsUpTo(FileBytes, MaxMtfLen)

InitMTF ==
    /\ pc = "mtf_start"
    /\ data \in MtfInputs
    /\ index = Unused /\ fwd = Unused /\ inv = Unused /\ loop = Unused
    /\ FilesUnused

\* fwd = perform_move_to_front_transform(data)
MtfForward ==
    /\ pc = "mtf_start"
    /\ fwd' = perform_move_to_front_transform(data)
    /\ pc' = "mtf_forward"
    /\ UNCHANGED <<data, index, inv, loop>>
    /\ UNCHANGED fileVars

\* inv = reverse_move_to_front_transform(fwd)
MtfInverse ==
    /\ pc = "mtf_forward"
    /\ inv' = reverse_move_to_front_transform(fwd)
    /\ pc' = "mtf_round_trip"
    /\ UNCHANGED <<data, index, fwd, loop>>
    /\ UNCHANGED fileVars

NextMTF == MtfForward \/ MtfInverse

SpecMTF == InitMTF /\ [][NextMTF]_vars

(***************************************************************************)
(* The run-length codec, one loop iteration at a time: an integer stream   *)
(* is encoded and the result decoded ("rle_start"), or a given byte        *)
(* stream is decoded ("rle_given").                                        *)
(***************************************************************************)
RleValues == {0, 255}
RunLengths == (1..MaxShortRun) \cup (MaxRun..(MaxRun + MaxOver))

RECURSIVE RunStreams(_)
RunStreams(k) ==
    IF k = 0 THEN {<<>>}
    ELSE LET shorter == RunStreams(k - 1)
         IN  shorter \cup {s \o Repeat(v, l) :
                              s \in shorter, v \in RleValues, l \in RunLengths}

RleInputs ==
    RunStreams(MaxRuns)
    \cup {Tile(p, l) : p \in {<<0, 255>>, <<0, 0, 255, 255>>}, l \in RunLengths}

GivenBytes == {0, 2, 128, 130}
GivenStreams == SeqsUpTo(GivenBytes, MaxGivenLen)

InitRLE ==
    /\ \/ pc = "rle_start" /\ data \in RleInputs /\ fwd = Unused
       \/ pc = "rle_given" /\ data = Unused /\ fwd \in GivenStreams
    /\ index = Unused /\ inv = Unused /\ loop = Unused
    /\ FilesUnused

\* perform_run_length_encoding(data) is entered: the early return for an
\* empty list, or the loop's initial state.
RleEncodeCall ==
    /\ pc = "rle_start"
    /\ IF data = <<>>
       THEN fwd' = <<>> /\ pc' = "rle_encoded" /\ loop' = loop
       ELSE loop' = [i |-> 0, encoded |-> <<>>] /\ pc' = "rle_encoding"
                /\ fwd' = fwd
    /\ UNCHANGED <<data, index, inv>>
    /\ UNCHANGED fileVars

\* One iteration of while i < n.
RleEncodeIterate ==
    /\ pc = "rle_encoding"
    /\ loop.i < Len(data)
    /\ loop' = RleEncodeStep(data, loop)
    /\ UNCHANGED <<pc, data, index, fwd, inv>>
    /\ UNCHANGED fileVars

\* return bytes(encoded)
RleEncodeReturn ==
    /\ pc = "rle_encoding"
    /\ ~(loop.i < Len(data))
    /\ fwd' = loop.encoded
    /\ pc' = "rle_encoded"
    /\ UNCHANGED <<data, index, inv, loop>>
    /\ UNCHANGED fileVars

RleDecodingOf(start) ==
    IF start = "rle_encoded" THEN "rle_decoding" ELSE "rle_given_decoding"
RleDoneOf(decoding) ==
    IF decoding = "rle_decoding" THEN "rle_round_trip" ELSE "rle_given_done"

\* decode_run_length_encoding(fwd) is entered.
RleDecodeCall ==
    /\ pc \in {"rle_encoded", "rle_given"}
    /\ IF fwd = <<>>
       THEN inv' = Return(<<>>) /\ pc' = RleDoneOf(RleDecodingOf(pc))
                /\ loop' = loop
       ELSE loop' = [position |-> 0, decoded_values |-> <<>>, raised |-> "none"]
                /\ pc' = RleDecodingOf(pc) /\ inv' = inv
    /\ UNCHANGED <<data, index, fwd>>
    /\ UNCHANGED fileVars

RleDecoding == pc \in {"rle_decoding", "rle_given_decoding"}

\* One iteration of while position < data_length.
RleDecodeIterate ==
    /\ RleDecoding
    /\ loop.raised = "none"
    /\ loop.position < Len(fwd)
    /\ loop' = RleDecodeStep(fwd, loop)
    /\ UNCHANGED <<pc, data, index, fwd, inv>>
    /\ UNCHANGED fileVars

\* return decoded_values
RleDecodeReturn ==
    /\ RleDecoding
    /\ loop.raised = "none"
    /\ ~(loop.position < Len(fwd))
    /\ inv' = Return(loop.decoded_values)
    /\ pc' = RleDoneOf(pc)
    /\ UNCHANGED <<data, index, fwd, loop>>
    /\ UNCHANGED fileVars

\* raise ValueError(error_msg): the call ends without a value.
RleDecodeRaise ==
    /\ RleDecoding
    /\ loop.raised # "none"
    /\ inv' = Raise("ValueError", loop.raised)
    /\ pc' = RleDoneOf(pc)
    /\ UNCHANGED <<data, index, fwd, loop>>
    /\ UNCHANGED fileVars

NextRLE ==
    \/ RleEncodeCall \/ RleEncodeIterate \/ RleEncodeReturn
    \/ RleDecodeCall \/ RleDecodeIterate \/ RleDecodeReturn \/ RleDecodeRaise

SpecRLE == InitRLE /\ [][NextRLE]_vars

(***************************************************************************)
(* The main loop of perform_run_length_encoding alone, run to its end.     *)
(***************************************************************************)
LoopInputs ==
    RunStreams(MaxLoopRuns)
    \cup {Tile(p, l) : p \in {<<0, 255>>, <<0, 0, 255, 255>>}, l \in RunLengths}

InitLoop ==
    /\ pc = "rle_start"
    /\ data \in LoopInputs
    /\ index = Unused /\ fwd = Unused /\ inv = Unused /\ loop = Unused
    /\ FilesUnused

NextLoop == RleEncodeCall \/ RleEncodeIterate \/ RleEncodeReturn

\* The interpreter keeps running a call that has started: a step that can
\* be taken is eventually taken.
SpecLoop == InitLoop /\ [][NextLoop]_vars /\ WF_vars(NextLoop)

(***************************************************************************)
(* The three decode-side functions, each called on arbitrary arguments.    *)
(***************************************************************************)
RankValues == {0 - 1, 0, 1, 255, 256}
GivenRanks == SeqsUpTo(RankValues, MaxRankLen)

InitERR ==
    /\ \/ pc = "call_bwt_inverse" /\ data \in BwtInputs /\ index \in BwtIndexes
       \/ pc = "call_mtf_inverse" /\ data \in GivenRanks /\ index = Unused
       \/ pc = "call_rle_decode" /\ data \in GivenStreams /\ index = Unused
    /\ fwd = Unused /\ inv = Unused /\ loop = Unused
    /\ FilesUnused

\* inv = reverse_burrows_wheeler_transform(data, index)
CallBwtInverse ==
    /\ pc = "call_bwt_inverse"
    /\ inv' = reverse_burrows_wheeler_transform(data, index)
    /\ pc' = "bwt_inverse_done"
    /\ UNCHANGED <<data, index, fwd, loop>>
    /\ UNCHANGED fileVars

\* inv = reverse_move_to_front_transform(data)
CallMtfInverse ==
    /\ pc = "call_mtf_inverse"
    /\ inv' = reverse_move_to_front_transform(data)
    /\ pc' = "mtf_inverse_done"
    /\ UNCHANGED <<data, index, fwd, loop>>
    /\ UNCHANGED fileVars

\* inv = decode_run_length_encoding(data)
CallRleDecode ==
    /\ pc = "call_rle_decode"
    /\ inv' = decode_run_length_encoding(data)
    /\ pc' = "rle_decode_done"
    /\ UNCHANGED <<data, index, fwd, loop>>
    /\ UNCHANGED fileVars

NextERR == CallBwtInverse \/ CallMtfInverse \/ CallRleDecode

SpecERR == InitERR /\ [][NextERR]_vars

(***************************************************************************)
(* compress_file and decompress_file in a file system that can fail: the   *)
(* input may be missing, open() and write() may raise OSError, a pipeline  *)
(* stage may raise, and a file may already exist at the output path.       *)
(***************************************************************************)
IoFaults == {"none", "read", "stage", "open", "write"}

\* What was at the output path before the call.
OldFiles == {NoFile, File(<<255>>)}

IoInputs ==
    {NoFile}
    \cup {File(x) : x \in SeqsUpTo(FileBytes, MaxSmallLen)}
    \cup {File(Tile(<<0, 65>>, l)) : l \in LongLengths}
    \cup {File(Vector600)}

\* Containers as they may be found on disk, well-formed or not.
GivenHeaders == {ToBytesBig(i, HeaderSize).value : i \in 0..MaxHeaderIndex}
GivenContainers ==
    {NoFile}
    \cup {File(h \o stream) : h \in GivenHeaders, stream \in GivenStreams}

\* The bytes a call was about to write.
Written(r) == IF "written" \in DOMAIN r THEN r.written ELSE <<>>

\* How many bytes of n reach the file when a write raises.
PartialLengths(n) == {0} \cup {k \in {HeaderSize, n - 1} : 0 < k /\ k < n}

\* The try body of compress_file: r is what the pipeline computes from the
\* input, output the file at output_path before the call; the result is
\* the exception that left the body and the file at output_path then.
TryCompress(input, r, output, fault, k) ==
    IF ~input.exists \/ fault = "read"
    THEN [raised |-> "OSError", at |-> "read", output |-> output]
    ELSE IF fault = "stage"
    THEN [raised |-> "MemoryError", at |-> "stage", output |-> output]
    ELSE IF fault = "open"
    THEN [raised |-> "OSError", at |-> "open", output |-> output]
    ELSE IF r.raised # "none"
    THEN [raised |-> r.raised, at |-> "to_bytes", output |-> OpenForWriting]
    ELSE IF fault = "write"
    THEN [raised |-> "OSError", at |-> "write",
          output |-> File(SubSeq(r.written, 1, k))]
    ELSE [raised |-> "none", at |-> "none", output |-> File(r.written)]

\* The try body of decompress_file: r is what the stages compute from the
\* container; a stage that raises does so before output_path is opened.
TryDecompress(container, r, output, fault, k) ==
    IF ~container.exists \/ fault = "read"
    THEN [raised |-> "OSError", at |-> "read", output |-> output]
    ELSE IF r.raised # "none"
    THEN [raised |-> r.raised, at |-> r.at, output |-> output]
    ELSE IF fault = "open"
    THEN [raised |-> "OSError", at |-> "open", output |-> output]
    ELSE IF fault = "write"
    THEN [raised |-> "OSError", at |-> "write",
          output |-> File(SubSeq(r.written, 1, k))]
    ELSE [raised |-> "none", at |-> "none", output |-> File(r.written)]

InitIO ==
    /\ \/ /\ pc = "start"
          /\ input_file \in IoInputs
          /\ compressed_file \in OldFiles
       \/ /\ pc = "compressed"
          /\ input_file = NoFile
          /\ compressed_file \in GivenContainers
    /\ output_file \in OldFiles
    /\ enc = Idle
    /\ dec = Idle
    /\ data = Unused /\ index = Unused /\ fwd = Unused /\ inv = Unused
    /\ loop = Unused

\* compress_file(input_path, output_path) with its exception handler; a
\* stage can only fail once the file is large enough to reach the stages.
CompressFileIO ==
    /\ pc = "start"
    /\ \E fault \in IoFaults :
       \E r \in {IF input_file.exists THEN compress_file(input_file.content)
                 ELSE Idle} :
       \E k \in (IF fault = "write" THEN PartialLengths(Len(Written(r)))
                 ELSE {0}) :
       \E t \in {TryCompress(input_file, r, compressed_file, fault, k)} :
           /\ fault = "stage" =>
                  (input_file.exists /\ ~TooSmall(Len(input_file.content)))
           /\ enc' = [raised |-> t.raised, at |-> t.at,
                      before |-> compressed_file, partial |-> t.output]
           /\ compressed_file' = ExceptHandler(t)
           /\ pc' = IF t.raised = "none" THEN "compressed" ELSE "exited"
    /\ UNCHANGED <<input_file, output_file, dec>>
    /\ UNCHANGED unitVars

\* decompress_file(compressed_path, output_path) with its exception
\* handler; the stages fail on what the container holds.
DecompressFileIO ==
    /\ pc = "compressed"
    /\ \E fault \in IoFaults \ {"stage"} :
       \E r \in {IF compressed_file.exists
                 THEN decompress_file(compressed_file.content) ELSE Idle} :
       \E k \in (IF fault = "write" THEN PartialLengths(Len(Written(r)))
                 ELSE {0}) :
       \E t \in {TryDecompress(compressed_file, r, output_file, fault, k)} :
           /\ dec' = [raised |-> t.raised, at |-> t.at,
                      before |-> output_file, partial |-> t.output]
           /\ output_file' = ExceptHandler(t)
           /\ pc' = IF t.raised = "none" THEN "decompressed" ELSE "raised"
    /\ UNCHANGED <<input_file, compressed_file, enc>>
    /\ UNCHANGED unitVars

NextIO == CompressFileIO \/ DecompressFileIO

SpecIO == InitIO /\ [][NextIO]_vars

(***************************************************************************)
(* Claims about compress_file and decompress_file (specification Spec).    *)
(***************************************************************************)
Compressed == pc \in {"compressed", "decompressed", "raised"}
Decompressed == pc \in {"decompressed", "raised"}

\* C1: decompressing the container that compress_file writes for X yields
\* exactly X, for every input buffer X.
C1_FileRoundTrip ==
    Decompressed => output_file = File(input_file.content)

\* C2: the container written by compress_file is at most len(X) + 4 bytes
\* long, whichever branch wrote it.
C2_ContainerLength ==
    Compressed =>
        Len(compressed_file.content) <= Len(input_file.content) + HeaderSize

\* C2 witness: an input of at least 512 bytes that the pipeline does not
\* shrink was stored, the container being exactly len(X) + 4 bytes long.
C2_Witness ==
    /\ Compressed
    /\ enc.branch = "ineffective"
    /\ Len(input_file.content) >= MinCompressSize
    /\ Len(compressed_file.content) = Len(input_file.content) + HeaderSize

\* C3: a container written in store mode has the all-zero header, one
\* written in compressed mode has a non-zero header that is the big-endian
\* primary index, and decompress_file selects the mode the encoder used.
C3_HeaderIdentifiesMode ==
    LET header == SubSeq(compressed_file.content, 1, HeaderSize)
        stored == enc.branch \in {"small", "ineffective"}
    IN  /\ Compressed =>
              IF stored THEN header = <<0, 0, 0, 0>>
              ELSE /\ header # <<0, 0, 0, 0>>
                   /\ header[1] * 16777216 + header[2] * 65536
                        + header[3] * 256 + header[4] = enc.locals.index
        /\ Decompressed =>
              dec.branch = (IF stored THEN "store" ELSE "compressed")

\* C7: the store-versus-compress decision: 4 zero bytes and X when L < 512
\* or when len(P) + 4 >= L, else the big-endian idx followed by P.
C7_Decision ==
    LET X == input_file.content
        L == Len(X)
        written == compressed_file.content
    IN  Compressed =>
          IF L < 512
          THEN written = <<0, 0, 0, 0>> \o X
          ELSE /\ "locals" \in DOMAIN enc
               /\ LET P == enc.locals.rle_data
                      idx == enc.locals.index
                  IN  IF Len(P) + 4 >= L
                      THEN written = <<0, 0, 0, 0>> \o X
                      ELSE written = <<idx \div 16777216, (idx \div 65536) % 256,
                                       (idx \div 256) % 256, idx % 256>> \o P

\* C7 witness: an input of at least 512 bytes was written in compressed
\* mode with a non-zero primary index in the header.
C7_Witness ==
    /\ Compressed
    /\ Len(input_file.content) >= 512
    /\ enc.branch = "compressed"
    /\ enc.locals.index > 0
    /\ Len(compressed_file.content) < Len(input_file.content)

\* Whether payload is a sequence of repeat records of value 0, all with
\* header 0x80|127 but the last.
OnlyZeroRepeatRecords(payload) ==
    /\ Len(payload) % 2 = 0
    /\ \A k \in 1..(Len(payload) \div 2) :
          /\ payload[2 * k] = 0
          /\ payload[2 * k - 1] > 128
          /\ 2 * k < Len(payload) => payload[2 * k - 1] = 128 + 127

\* C10: the 600 bytes 0x41 are written in compressed mode; the block-sort
\* output is 600 times 0x41, the rank stream 600 zeros, the payload repeat
\* records of value 0 only, and decompressing returns the 600 bytes.
C10_Vector600 ==
    (input_file.content = Vector600 /\ Decompressed) =>
        /\ enc.branch = "compressed"
        /\ enc.locals.bwt_data = Repeat(65, 600)
        /\ enc.locals.mtf_data = Repeat(0, 600)
        /\ OnlyZeroRepeatRecords(enc.locals.rle_data)
        /\ output_file = File(Vector600)

\* The parts of C10 taken one by one.
C10_Mode == (input_file.content = Vector600 /\ Compressed) => enc.branch = "compressed"
C10_Bwt == (input_file.content = Vector600 /\ Compressed) => enc.locals.bwt_data = Repeat(65, 600)
C10_Mtf == (input_file.content = Vector600 /\ Compressed) => enc.locals.mtf_data = Repeat(0, 600)
C10_Rle == (input_file.content = Vector600 /\ Compressed) => OnlyZeroRepeatRecords(enc.locals.rle_data)
C10_Decoded == (input_file.content = Vector600 /\ Decompressed) => output_file = File(Vector600)

(***************************************************************************)
(* Claims about the block-sort transform (specification SpecBWT).          *)
(***************************************************************************)
\* C4: reverse_burrows_wheeler_transform applied to the buffer and primary
\* index that perform_burrows_wheeler_transform(X) returns gives back X,
\* for every buffer X (empty, single-byte and periodic ones included).
C4_BwtRoundTrip ==
    pc = "bwt_round_trip" => inv = Return(data)

\* C4 witness: the round trip of a periodic buffer (abab with a # b), two
\* of whose rotations compare equal, has been made.
C4_Witness ==
    /\ pc = "bwt_round_trip"
    /\ Len(data) = 4
    /\ data[1] = data[3] /\ data[2] = data[4] /\ data[1] # data[2]
    /\ compare_rotations(data, 0, 2) = 0
    /\ inv = Return(data)

\* C9: reverse_burrows_wheeler_transform fails with the invalid-index error
\* whenever the index is outside [0, n) for a buffer of length n > 0, and
\* whenever n = 0 and the index is not 0.
C9_InvalidIndexFails ==
    LET n == Len(data)
    IN  (/\ pc = "bwt_inverse"
         /\ \/ n > 0 /\ (index < 0 \/ index >= n)
            \/ n = 0 /\ index # 0)
        => inv = Raise("ValueError", "bwt_index")

\* The part of C9 about non-empty buffers: the index is outside [0, n)
\* exactly when the call fails with the invalid-index error.
C9_NonEmptyBuffer ==
    (pc = "bwt_inverse" /\ Len(data) > 0) =>
        ((index < 0 \/ index >= Len(data)) <=> inv = Raise("ValueError", "bwt_index"))

\* What the code does for the empty buffer: b'' whatever the index.
C9_EmptyBuffer ==
    (pc = "bwt_inverse" /\ Len(data) = 0) => inv = Return(<<>>)

(***************************************************************************)
(* Claims about the move-to-front transform (specification SpecMTF).       *)
(***************************************************************************)
\* C6: reverse_move_to_front_transform(perform_move_to_front_transform(X))
\* equals X for every buffer X, the inverse skipping the move for rank 0.
C6_MtfRoundTrip ==
    pc = "mtf_round_trip" => inv = Return(data)

\* C6 witness: a round trip whose rank stream holds a rank 0 (move skipped
\* by the inverse) followed by a rank that is not 0.
C6_Witness ==
    /\ pc = "mtf_round_trip"
    /\ \E j \in 1..Len(fwd) : \E k \in (j + 1)..Len(fwd) : fwd[j] = 0 /\ fwd[k] # 0
    /\ inv = Return(data)

(***************************************************************************)
(* Claims about the run-length codec (specification SpecRLE).              *)
(***************************************************************************)
\* C5: decode_run_length_encoding(perform_run_length_encoding(S)) equals S
\* for every stream S of values in [0, 255].
C5_RleRoundTrip ==
    pc = "rle_round_trip" => inv = Return(data)

\* C5 witness: the round trip of a stream with a run longer than 127 whose
\* remainder of 1 or 2 values went into a raw record.
C5_Witness ==
    /\ pc = "rle_round_trip"
    /\ Len(data) > MaxRun
    /\ Len(fwd) >= 4
    /\ fwd[1] = 128 + 127
    /\ fwd[3] \in 1..2
    /\ fwd[4] = data[1]
    /\ inv = Return(data)

\* Whether the record whose header byte is at position p (0-based) is cut
\* off by the end of the stream.
TruncatedAt(stream, p) ==
    IF At(stream, p) >= 128
    THEN p = Len(stream) - 1
    ELSE At(stream, p) > Len(stream) - (p + 1)

\* The positions of the header bytes of the stream's records, from p on.
RECURSIVE HeaderPositions(_, _)
HeaderPositions(stream, p) ==
    IF p >= Len(stream) THEN {}
    ELSE {p} \cup
         (IF TruncatedAt(stream, p) THEN {}
          ELSE HeaderPositions(stream,
                   IF At(stream, p) >= 128 THEN p + 2 ELSE p + 1 + At(stream, p)))

EndsMidRecord(stream) ==
    \E p \in HeaderPositions(stream, 0) : TruncatedAt(stream, p)

\* C8: decode_run_length_encoding fails, returning no value, on every byte
\* stream that ends mid-record: a repeat header that is the last byte, or a
\* raw header whose value exceeds the number of bytes after it.
C8_TruncatedStreamFails ==
    (pc \in {"rle_given_done", "rle_round_trip"} /\ EndsMidRecord(fwd)) =>
        /\ inv.raised = "ValueError"
        /\ DOMAIN inv = {"raised", "at"}

\* C8 witness: a given stream whose first record is complete and whose last
\* record is cut off was decoded; the values already decoded are not returned.
C8_Witness ==
    /\ pc = "rle_given_done"
    /\ EndsMidRecord(fwd)
    /\ ~TruncatedAt(fwd, 0)
    /\ loop.decoded_values # <<>>
    /\ inv.raised = "ValueError"

(***************************************************************************)
(* Claims about the errors of the decode-side functions (SpecERR).         *)
(***************************************************************************)
\* The call that ended was handed a primary index or a rank out of range.
IndexFailure ==
    \/ pc = "bwt_inverse_done" /\ Len(data) > 0
          /\ (index < 0 \/ index >= Len(data))
    \/ pc = "mtf_inverse_done"
          /\ \E k \in 1..Len(data) : data[k] < 0 \/ data[k] >= AlphabetSize

\* The call that ended was handed a run-coded stream that ends mid-record.
TruncationFailure ==
    pc = "rle_decode_done" /\ EndsMidRecord(data)

\* The error kind (exception class) of the truncation failure: what a
\* repeat header with no value byte raises.
TruncationErrorKind == decode_run_length_encoding(<<RleFlag>>).raised

\* The error kind of the index failure: what index n for n bytes raises.
IndexErrorKind == reverse_burrows_wheeler_transform(<<0>>, 1).raised

\* C11: the error raised for a primary index or rank out of range is a
\* different, distinguishable error kind from the error raised for a
\* run-coded stream that ends mid-record; neither is shared by both.
C11_DistinctErrorKinds ==
    /\ IndexFailure =>
          (inv.raised # "none" /\ inv.raised # TruncationErrorKind)
    /\ TruncationFailure =>
          (inv.raised # "none" /\ inv.raised # IndexErrorKind)

\* C11 as amended: both failures are raised as the same error kind,
\* ValueError; they differ only in the raise statement (its message).
C11_SameErrorKind ==
    /\ IndexFailure =>
          /\ inv.raised = "ValueError"
          /\ inv.raised = TruncationErrorKind
          /\ inv.at \in {"bwt_index", "mtf_invalid_indices"}
    /\ TruncationFailure =>
          /\ inv.raised = "ValueError"
          /\ inv.raised = IndexErrorKind
          /\ inv.at \in {"rle_run", "rle_raw"}

\* C11 witness: index n was handed in for a buffer of n > 0 bytes and the
\* call raised the error kind that a truncated stream raises.
C11_Witness ==
    /\ pc = "bwt_inverse_done"
    /\ Len(data) > 0
    /\ index = Len(data)
    /\ inv.raised = TruncationErrorKind
    /\ inv.at = "bwt_index"

(***************************************************************************)
(* Claims about failing file operations (SpecIO).                          *)
(***************************************************************************)
\* C12: when compress_file or decompress_file has failed, at whatever step
\* (reading the input, a pipeline stage, opening or writing the output), no
\* file exists at its output path, whether or not one existed before the
\* call and whether or not the call had started to write one.
C12_NoOutputAfterFailure ==
    /\ pc = "exited" => (enc.raised # "none" /\ ~compressed_file.exists)
    /\ pc = "raised" => (dec.raised # "none" /\ ~output_file.exists)
    /\ pc = "compressed" /\ enc # Idle => enc.raised = "none"
    /\ pc = "decompressed" => dec.raised = "none"

\* C12 witness: compress_file failed while writing over a file that existed
\* before the call, part of the output had reached the file, and the path
\* is empty after the call.
C12_Witness ==
    /\ pc = "exited"
    /\ enc.at = "write"
    /\ enc.before.exists
    /\ enc.partial.exists /\ Len(enc.partial.content) > 0
    /\ ~compressed_file.exists

(***************************************************************************)
(* Claims about the main loop of perform_run_length_encoding               *)
(* (SpecLoop).                                                             *)
(***************************************************************************)
\* rec is a repeat record for a run of consumed values: its header is the
\* flag plus a length of more than 2 and at most 127, then the value.
IsRepeatRecord(rec, consumed, values) ==
    /\ consumed > 2 /\ consumed <= MaxRun
    /\ rec = <<RleFlag + consumed, values[1]>>
    /\ values = Repeat(values[1], consumed)

\* rec is a raw record of consumed values: a header of 1 to 127, the flag
\* bit clear, then the values themselves.
IsRawRecord(rec, consumed, values) ==
    /\ consumed >= 1 /\ consumed <= MaxRun
    /\ rec = <<consumed>> \o values

\* An iteration of the main loop appends exactly one record to encoded and
\* moves i past the values the record stands for, at least one of them.
OneRecordPerIteration ==
    (pc = "rle_encoding" /\ pc' = "rle_encoding" /\ loop' # loop) =>
        LET consumed == loop'.i - loop.i
            rec == SubSeq(loop'.encoded, Len(loop.encoded) + 1,
                          Len(loop'.encoded))
            values == SubSeq(data, loop.i + 1, loop'.i)
        IN  /\ consumed >= 1
            /\ loop'.i <= Len(data)
            /\ SubSeq(loop'.encoded, 1, Len(loop.encoded)) = loop.encoded
            /\ \/ IsRepeatRecord(rec, consumed, values)
               \/ IsRawRecord(rec, consumed, values)

\* The lengths of the records of a run-coded stream, summed.
RECURSIVE RecordLengthSum(_)
RecordLengthSum(stream) ==
    IF stream = <<>> THEN 0
    ELSE IF stream[1] >= RleFlag
    THEN (stream[1] - RleFlag) + RecordLengthSum(SubSeq(stream, 3, Len(stream)))
    ELSE stream[1] + RecordLengthSum(SubSeq(stream, 2 + stream[1], Len(stream)))

\* The loop is left with i equal to the length of the input, and the
\* records written up to any point stand for exactly the values scanned.
ScanPositionIsRecordSum ==
    /\ pc = "rle_encoding" =>
          (loop.i <= Len(data) /\ RecordLengthSum(loop.encoded) = loop.i)
    /\ (pc = "rle_encoded" /\ data # <<>>) =>
          (loop.i = Len(data) /\ RecordLengthSum(fwd) = Len(data))

\* C13: every iteration of the main loop emits exactly one record that
\* consumes at least one value (a repeat record of length 3 to 127 or a raw
\* record of length 1 to 127, never an empty raw record); so the loop ends,
\* with the scan position equal to the input length and the record lengths
\* adding up to the input length.
C13_LoopProgress ==
    /\ [][OneRecordPerIteration]_vars
    /\ []ScanPositionIsRecordSum
    /\ (pc = "rle_encoding") ~> (pc = "rle_encoded")

\* C13 witness: the loop has ended on an input longer than one record can
\* cover, having written both a repeat record and a raw record.
C13_Witness ==
    /\ pc = "rle_encoded"
    /\ Len(data) > MaxRun
    /\ loop.i = Len(data)
    /\ \E p \in 1..Len(fwd) : fwd[p] > RleFlag
    /\ fwd[1] < RleFlag /\ fwd[1] >= 1

=============================================================================
